---------------------------- MODULE Spec2Model ----------------------------
(***************************************************************************)
(* A model of src/extractor.py: class WebsiteLoginAutomation.              *)
(*                                                                         *)
(*   Spec          __init__, login_and_get_tokens and _extract_all_tokens: *)
(*                 one run of the login flow, one blocking browser call    *)
(*                 per step, each of which may raise.                      *)
(*   SpecIdentify  find_session_token applied to bounded snapshots.        *)
(*   SpecConfig    update_config_file applied repeatedly to a small file   *)
(*                 system.                                                 *)
(*                                                                         *)
(* Strings whose characters the code inspects (names that are lowercased   *)
(* and searched, wait_after_login) are sequences of one-character strings. *)
(* A Python dict is a sequence of [name, value] records with distinct      *)
(* names, in insertion order.                                              *)
(***************************************************************************)
EXTENDS Naturals, Sequences, FiniteSets

VARIABLES
    \* --- the run (Spec) ---
    username,          \* constants.WEBSITE_USERNAME
    password,          \* constants.WEBSITE_PASSWORD
    headless,          \* self.headless
    wait_after_login,  \* the argument of login_and_get_tokens
    site,              \* what the browser holds after login (the environment)
    pc,                \* position of the run
    calls,             \* the calls made on the browser so far, in order
    pending,           \* "none", "return" or "raise": what the finally block resumes
    failed,            \* the surfaces whose in-page evaluation raised
    outcome,           \* "running", "ValueError", "returned", "raised"
    \* --- snapshots ---
    tokens,            \* the snapshot (returned by extraction, or under identification)
    result,            \* what find_session_token returned
    \* --- the configuration file (SpecConfig) ---
    files,             \* path -> file content
    dirs,              \* the directories that exist
    denied,            \* what the operating system refuses this process
    last,              \* the most recent update_config_file call
    prev               \* the arguments of the call before it

vars == <<username, password, headless, wait_after_login, site, pc, calls,
          pending, failed, outcome, tokens, result, files, dirs, denied, last, prev>>

runVars == <<username, password, headless, wait_after_login, site, pc, calls,
             pending, failed, outcome>>
configVars == <<files, dirs, denied, last, prev>>

-----------------------------------------------------------------------------
(* Bounds *)

\* The most entries a snapshot under identification holds, all surfaces together.
MaxEntries == 3

\* The most cookies the browser context holds in a run.
MaxCookies == 2

-----------------------------------------------------------------------------
(* Python values *)

None == [type |-> "None"]

\* None where a string may stand: a sequence that is no string of characters.
NoneStr == <<"None">>

\* Python truthiness of an optional string: None and "" are falsy.
Truthy(s) == s # NoneStr /\ s # <<>>

Range(s) == {s[i] : i \in 1..Len(s)}

Upper == <<"A","B","C","D","E","F","G","H","I","J","K","L","M",
           "N","O","P","Q","R","S","T","U","V","W","X","Y","Z">>
Lower == <<"a","b","c","d","e","f","g","h","i","j","k","l","m",
           "n","o","p","q","r","s","t","u","v","w","x","y","z">>

UpperToLower == [c \in Range(Upper) |-> Lower[CHOOSE k \in 1..26 : Upper[k] = c]]

\* str.lower(), character by character.
lower(s) ==
    [i \in 1..Len(s) |->
        IF s[i] \in DOMAIN UpperToLower THEN UpperToLower[s[i]] ELSE s[i]]

\* The Python test  sub in s  on strings: s has sub as a contiguous substring.
In(sub, s) ==
    /\ Len(sub) <= Len(s)
    /\ \E i \in 0..(Len(s) - Len(sub)) : SubSeq(s, i + 1, i + Len(sub)) = sub

\* str.startswith(prefix)
startswith(s, prefix) ==
    /\ Len(prefix) <= Len(s)
    /\ SubSeq(s, 1, Len(prefix)) = prefix

(* dict operations, insertion order kept *)
DictKeys(d) == {d[i].name : i \in 1..Len(d)}

DictGet(d, k) == d[CHOOSE i \in 1..Len(d) : d[i].name = k].value

\* d[k] = v : an existing key keeps its place, a new key goes last.
DictSet(d, k, v) ==
    IF k \in DictKeys(d)
    THEN [i \in 1..Len(d) |-> IF d[i].name = k THEN [name |-> k, value |-> v] ELSE d[i]]
    ELSE Append(d, [name |-> k, value |-> v])

\* tokens.get(field, {})
get(t, field) == IF field \in DOMAIN t THEN t[field] ELSE <<>>

-----------------------------------------------------------------------------
(* find_session_token *)

session_names == <<
    <<"s","e","s","s","i","o","n">>,
    <<"s","e","s","s","i","o","n","i","d">>,
    <<"s","e","s","s","i","o","n","_","i","d">>,
    <<"s","e","s","s","i","o","n","t","o","k","e","n">>,
    <<"s","e","s","s","i","o","n","_","t","o","k","e","n">>,
    <<"p","h","p","s","e","s","s","i","d">>,
    <<"j","s","e","s","s","i","o","n","i","d">>,
    <<"a","s","p","s","e","s","s","i","o","n","i","d">>,
    <<"s","i","d">>,
    <<"c","o","n","n","e","c","t",".","s","i","d">>,
    <<"a","u","t","h","_","t","o","k","e","n">>,
    <<"a","u","t","h","t","o","k","e","n">>,
    <<"a","u","t","h","o","r","i","z","a","t","i","o","n">>,
    <<"x","-","a","u","t","h","-","t","o","k","e","n">> >>

\* any(session_name in name.lower() for session_name in session_names)
any_session_name(name) ==
    \E k \in 1..Len(session_names) : In(session_names[k], lower(name))

\* The for loop over d.items(): the index of the first entry at or after i whose
\* name passes the test, 0 when the loop runs out.
RECURSIVE first_match(_, _)
first_match(d, i) ==
    IF i > Len(d) THEN 0
    ELSE IF any_session_name(d[i].name) THEN i
    ELSE first_match(d, i + 1)

\* A plausible slip: the name is tested as stored, not lowercased.
RECURSIVE first_match_cased(_, _)
first_match_cased(d, i) ==
    IF i > Len(d) THEN 0
    ELSE IF \E k \in 1..Len(session_names) : In(session_names[k], d[i].name) THEN i
    ELSE first_match_cased(d, i + 1)

find_session_token_cased(t) ==
    LET c  == get(t, "cookies")
        l  == get(t, "localStorage")
        s  == get(t, "sessionStorage")
        ci == first_match_cased(c, 1)
        li == first_match_cased(l, 1)
        si == first_match_cased(s, 1)
    IN  IF ci > 0 THEN [type |-> "cookie", name |-> c[ci].name,
                        value |-> c[ci].value.value, full_data |-> c[ci].value]
        ELSE IF li > 0 THEN [type |-> "localStorage", name |-> l[li].name, value |-> l[li].value]
        ELSE IF si > 0 THEN [type |-> "sessionStorage", name |-> s[si].name, value |-> s[si].value]
        ELSE None

\* A plausible slip: localStorage is searched before the cookies.
find_session_token_local_first(t) ==
    LET c  == get(t, "cookies")
        l  == get(t, "localStorage")
        s  == get(t, "sessionStorage")
        ci == first_match(c, 1)
        li == first_match(l, 1)
        si == first_match(s, 1)
    IN  IF li > 0 THEN [type |-> "localStorage", name |-> l[li].name, value |-> l[li].value]
        ELSE IF ci > 0 THEN [type |-> "cookie", name |-> c[ci].name,
                             value |-> c[ci].value.value, full_data |-> c[ci].value]
        ELSE IF si > 0 THEN [type |-> "sessionStorage", name |-> s[si].name, value |-> s[si].value]
        ELSE None

find_session_token(t) ==
    LET c  == get(t, "cookies")
        l  == get(t, "localStorage")
        s  == get(t, "sessionStorage")
        ci == first_match(c, 1)
        li == first_match(l, 1)
        si == first_match(s, 1)
    IN  IF ci > 0 THEN [type |-> "cookie", name |-> c[ci].name,
                        value |-> c[ci].value.value, full_data |-> c[ci].value]
        ELSE IF li > 0 THEN [type |-> "localStorage", name |-> l[li].name, value |-> l[li].value]
        ELSE IF si > 0 THEN [type |-> "sessionStorage", name |-> s[si].name, value |-> s[si].value]
        ELSE None

-----------------------------------------------------------------------------
(* The snapshots find_session_token is applied to (SpecIdentify) *)

n_SID        == <<"S","I","D">>
n_session_id == <<"s","e","s","s","i","o","n","_","i","d">>
n_PHPSESSID  == <<"P","H","P","S","E","S","S","I","D">>
n_foo        == <<"f","o","o">>
n_token      == <<"t","o","k","e","n">>
n_session_token == <<"s","e","s","s","i","o","n","_","t","o","k","e","n">>
n_sessionToken  == <<"s","e","s","s","i","o","n","T","o","k","e","n">>

NamePool == {n_SID, n_session_id, n_PHPSESSID, n_foo, n_token}

\* The record _extract_all_tokens stores for a cookie.
CookieData(v) ==
    [value |-> v, domain |-> "example.com", path |-> "/",
     expires |-> None, httpOnly |-> TRUE, secure |-> FALSE]

\* The code never inspects a value: each entry's value names the surface and the
\* entry it belongs to, so that a returned value identifies its entry.
CookieEntries  == {[name |-> n, value |-> CookieData(<<"cookie", n>>)] : n \in NamePool}
LocalEntries   == {[name |-> n, value |-> <<"local", n>>] : n \in NamePool}
SessionEntries == {[name |-> n, value |-> <<"session", n>>] : n \in NamePool}

\* The dicts of exactly k entries drawn from a set of entries, names distinct.
RECURSIVE DictsOfLen(_, _)
DictsOfLen(entries, k) ==
    IF k = 0 THEN {<<>>}
    ELSE UNION {{Append(d, e) : e \in {x \in entries : x.name \notin DictKeys(d)}}
                : d \in DictsOfLen(entries, k - 1)}

CookieDicts  == [k \in 0..MaxEntries |-> DictsOfLen(CookieEntries, k)]
LocalDicts   == [k \in 0..MaxEntries |-> DictsOfLen(LocalEntries, k)]
SessionDicts == [k \in 0..MaxEntries |-> DictsOfLen(SessionEntries, k)]

\* The dicts of at most n entries, from a table of the dicts of each length.
DictsUpTo(table, n) == UNION {table[k] : k \in 0..n}

\* metaTags and scriptVariables of a snapshot: the field is absent, empty, or
\* holds a name that the session-name test would accept.
Absent == [present |-> FALSE, items |-> <<>>]
MetaChoices ==
    {Absent, [present |-> TRUE, items |-> <<>>],
     [present |-> TRUE, items |-> <<[name |-> n_session_token, value |-> "m1"]>>]}
ScriptChoices ==
    {Absent, [present |-> TRUE, items |-> <<>>],
     [present |-> TRUE, items |-> <<[name |-> n_sessionToken, value |-> "g1"]>>]}

Snapshot(c, l, s, m, g) ==
    LET fields == {"cookies", "localStorage", "sessionStorage"}
                    \cup (IF m.present THEN {"metaTags"} ELSE {})
                    \cup (IF g.present THEN {"scriptVariables"} ELSE {})
    IN  [f \in fields |->
            CASE f = "cookies"         -> c
              [] f = "localStorage"    -> l
              [] f = "sessionStorage"  -> s
              [] f = "metaTags"        -> m.items
              [] f = "scriptVariables" -> g.items]

NotCalled == [type |-> "not called"]

\* The variables of the run, at rest.
RunIdle ==
    /\ username = NoneStr /\ password = NoneStr /\ headless = TRUE
    /\ wait_after_login = NoneStr /\ site = <<>> /\ pc = "idle" /\ calls = <<>>
    /\ pending = "none" /\ failed = {} /\ outcome = "running"

\* The variables of the configuration file, at rest.
ConfigIdle ==
    /\ files = <<>> /\ dirs = {} /\ denied = "nothing" /\ last = None /\ prev = None

InitIdentify ==
    /\ \E c \in DictsUpTo(CookieDicts, MaxEntries) :
       \E l \in DictsUpTo(LocalDicts, MaxEntries - Len(c)) :
       \E s \in DictsUpTo(SessionDicts, MaxEntries - Len(c) - Len(l)) :
       \E m \in MetaChoices, g \in ScriptChoices :
           tokens = Snapshot(c, l, s, m, g)
    /\ result = NotCalled
    /\ RunIdle /\ ConfigIdle

\* The caller applies find_session_token to the snapshot.
Identify ==
    /\ result = NotCalled
    /\ result' = find_session_token(tokens)
    /\ UNCHANGED <<tokens, runVars, configVars>>

NextIdentify == Identify

SpecIdentify == InitIdentify /\ [][NextIdentify]_vars

-----------------------------------------------------------------------------
(* Claims about find_session_token *)

\* The three searched surfaces as one sequence: cookies in stored order, then
\* localStorage, then sessionStorage, each entry with its kind, name and value.
Searched(t) ==
    [i \in 1..Len(t["cookies"]) |->
        [type |-> "cookie", name |-> t["cookies"][i].name,
         value |-> t["cookies"][i].value.value]]
    \o [i \in 1..Len(t["localStorage"]) |->
        [type |-> "localStorage", name |-> t["localStorage"][i].name,
         value |-> t["localStorage"][i].value]]
    \o [i \in 1..Len(t["sessionStorage"]) |->
        [type |-> "sessionStorage", name |-> t["sessionStorage"][i].name,
         value |-> t["sessionStorage"][i].value]]

\* The positions of the searched sequence whose lowercased name contains a fragment.
MatchingPositions(t) ==
    LET all == Searched(t)
    IN  {i \in 1..Len(all) : \E f \in Range(session_names) : In(f, lower(all[i].name))}

\* C1: when find_session_token returns a candidate, it is the earliest matching
\* entry of cookies, then localStorage, then sessionStorage, in stored order: no
\* matching entry of an earlier surface, or earlier in the same surface, exists.
C1_EarliestMatchWins ==
    (result # NotCalled /\ result # None) =>
        LET matching == MatchingPositions(tokens)
            i == CHOOSE k \in matching : \A j \in matching : k <= j
            e == Searched(tokens)[i]
        IN  /\ matching # {}
            /\ result.type = e.type
            /\ result.name = e.name
            /\ result.value = e.value

\* A cookie that is not the first cookie was returned from a snapshot in which a
\* localStorage or sessionStorage name matches too.
C1_Witness ==
    /\ result # NotCalled /\ result # None
    /\ result.type = "cookie"
    /\ tokens["cookies"][1].name # result.name
    /\ \E i \in MatchingPositions(tokens) : Searched(tokens)[i].type # "cookie"

\* C2: find_session_token returns no candidate exactly when no name of cookies,
\* localStorage or sessionStorage, lowercased, contains a session-name fragment;
\* and the result is the one given by the same snapshot without its metaTags and
\* scriptVariables.
C2_NoneIffNoMatch ==
    result # NotCalled =>
        /\ (result = None) <=> (MatchingPositions(tokens) = {})
        /\ result = find_session_token(
                [f \in DOMAIN tokens \ {"metaTags", "scriptVariables"} |-> tokens[f]])

\* No candidate was returned for a snapshot whose metaTags and scriptVariables
\* both hold a name that passes the session-name test.
C2_Witness ==
    /\ result = None
    /\ Len(tokens["cookies"]) + Len(tokens["localStorage"]) > 0
    /\ "metaTags" \in DOMAIN tokens /\ tokens["metaTags"] # <<>>
    /\ "scriptVariables" \in DOMAIN tokens /\ tokens["scriptVariables"] # <<>>

-----------------------------------------------------------------------------
(* __init__, login_and_get_tokens, _extract_all_tokens: one run (Spec) *)

Surfaces == {"localStorage", "sessionStorage", "metaTags", "scriptVariables"}
Fields   == {"cookies"} \cup Surfaces

\* A plausible slip: the run is refused only when both credentials are missing.
credentials_missing_both(u, p) == ~Truthy(u) /\ ~Truthy(p)

\* not self.username or not self.password
credentials_missing(u, p) == ~Truthy(u) \/ ~Truthy(p)

\* A plausible slip: only an absolute URL counts as a URL pattern.
is_url_pattern_http_only(w) == startswith(w, <<"h","t","t","p">>)

\* wait_after_login.startswith('http') or wait_after_login.startswith('/')
is_url_pattern(w) == startswith(w, <<"h","t","t","p">>) \/ startswith(w, <<"/">>)

\* A cookie as context.cookies() lists it.
Cookie(n, v, d) ==
    [name |-> n, value |-> v, domain |-> d, path |-> "/",
     expires |-> None, httpOnly |-> TRUE, secure |-> FALSE]

CookiePool ==
    {Cookie(n_SID, "c1", "example.com"), Cookie(n_SID, "c2", "api.example.com"),
     Cookie(n_foo, "c3", "example.com")}

\* The lists of exactly k different cookies.
RECURSIVE CookieLists(_)
CookieLists(k) ==
    IF k = 0 THEN {<<>>}
    ELSE UNION {{Append(l, c) : c \in CookiePool \ Range(l)} : l \in CookieLists(k - 1)}

\* What the browser may hold once the login has gone through.
Sites ==
    [cookies         : UNION {CookieLists(k) : k \in 0..MaxCookies},
     localStorage    : {<<>>, <<[name |-> n_token, value |-> "l1"]>>},
     sessionStorage  : {<<>>, <<[name |-> n_token, value |-> "s1"]>>},
     metaTags        : {<<>>, <<[name |-> <<"c","s","r","f","-","t","o","k","e","n">>, value |-> "m1"]>>},
     scriptVariables : {<<>>, <<[name |-> <<"a","u","t","h","T","o","k","e","n">>, value |-> "g1"]>>}]

\* The loop over context.cookies(): tokens['cookies'][cookie['name']] = {...}
RECURSIVE cookies_by_name(_, _)
cookies_by_name(list, d) ==
    IF list = <<>> THEN d
    ELSE LET c == Head(list)
         IN  cookies_by_name(Tail(list),
                DictSet(d, c.name,
                    [value |-> c.value, domain |-> c.domain, path |-> c.path,
                     expires |-> c.expires, httpOnly |-> c.httpOnly, secure |-> c.secure]))

\* The snapshot _extract_all_tokens returns once context.cookies() has answered;
\* `raising` holds the surfaces whose page.evaluate raises when it is made.
\* The meta tags and the script variables share one try block: when the first
\* raises the second is not evaluated, and the block assigns nothing for either.
_extract_all_tokens(s, raising) ==
    LET assigned ==
            {"cookies", "localStorage", "sessionStorage"}
            \cup (IF "metaTags" \in raising THEN {} ELSE {"metaTags"})
            \cup (IF {"metaTags", "scriptVariables"} \cap raising = {}
                  THEN {"scriptVariables"} ELSE {})
    IN  [f \in assigned |->
            CASE f = "cookies" -> cookies_by_name(s.cookies, <<>>)
              [] f \in {"localStorage", "sessionStorage"} ->
                    IF f \in raising THEN <<>> ELSE s[f]
              [] OTHER -> s[f]]

\* The evaluations that were made and raised.
raised_evaluations(raising) ==
    IF "metaTags" \in raising THEN raising \ {"scriptVariables"} ELSE raising

w_path     == <<"/","h","o","m","e">>
w_http     == <<"h","t","t","p","s",":","/","/","x">>
w_selector == <<"#","d","a","s","h">>
WaitValues == {NoneStr, <<>>, w_path, w_http, w_selector}
Credentials == {NoneStr, <<>>, <<"u">>}

Init ==
    /\ username \in Credentials
    /\ password \in Credentials
    /\ headless \in BOOLEAN
    /\ wait_after_login \in WaitValues
    /\ site \in Sites
    /\ pc = "new"
    /\ calls = <<>>
    /\ pending = "none"
    /\ failed = {}
    /\ outcome = "running"
    /\ tokens = <<>>
    /\ result = NotCalled
    /\ ConfigIdle

Call(op, arg, ok) == [op |-> op, arg |-> arg, ok |-> ok]

inputs == <<username, password, headless, wait_after_login, site>>

\* One blocking call on the browser: it answers and the run goes on at `next`,
\* or it raises and the run goes on at `handler`.
Step(op, arg, next, handler) ==
    /\ \E ok \in BOOLEAN :
        /\ calls' = Append(calls, Call(op, arg, ok))
        /\ pc' = IF ok THEN next ELSE handler
        /\ pending' = IF ok THEN pending ELSE "raise"
    /\ UNCHANGED <<inputs, failed, outcome, tokens, result, configVars>>

__init__ ==
    /\ pc = "new"
    /\ IF credentials_missing(username, password)
       THEN pc' = "done" /\ outcome' = "ValueError"
       ELSE pc' = "constructed" /\ outcome' = outcome
    /\ UNCHANGED <<inputs, calls, pending, failed, tokens, result, configVars>>

\* with sync_playwright() as p:
login_and_get_tokens ==
    /\ pc = "constructed"
    /\ pc' = "launch"
    /\ calls' = Append(calls, Call("sync_playwright", "", TRUE))
    /\ UNCHANGED <<inputs, pending, failed, outcome, tokens, result, configVars>>

\* The three calls made before the try statement is entered.
launch ==
    /\ pc = "launch"
    /\ Step("launch", "", "new_context", "exit_with")

new_context ==
    /\ pc = "new_context"
    /\ Step("new_context", "", "new_page", "exit_with")

new_page ==
    /\ pc = "new_page"
    /\ Step("new_page", "", "goto", "exit_with")

\* The body of the try statement.
goto ==
    /\ pc = "goto"
    /\ Step("goto", "login_url", "load", "except")

wait_for_load_state ==
    /\ pc = "load"
    /\ Step("wait_for_load_state", "networkidle",
            IF headless THEN "username" ELSE "screenshot_before", "except")

screenshot_before ==
    /\ pc = "screenshot_before"
    /\ Step("screenshot", "before_login.png", "username", "except")

wait_for_selector ==
    /\ pc = "username"
    /\ Step("wait_for_selector", "username_selector", "fill_username", "except")

fill_username ==
    /\ pc = "fill_username"
    /\ Step("fill", "username_selector", "fill_password", "except")

fill_password ==
    /\ pc = "fill_password"
    /\ Step("fill", "password_selector", "click", "except")

click ==
    /\ pc = "click"
    /\ Step("click", "submit_selector", "after_click", "except")

AfterWait == IF headless THEN "extract" ELSE "screenshot_after"

wait_for_url ==
    /\ pc = "after_click"
    /\ Truthy(wait_after_login) /\ is_url_pattern(wait_after_login)
    /\ Step("wait_for_url", "wait_after_login", AfterWait, "except")

wait_for_selector_after_login ==
    /\ pc = "after_click"
    /\ Truthy(wait_after_login) /\ ~is_url_pattern(wait_after_login)
    /\ Step("wait_for_selector", "wait_after_login", AfterWait, "except")

\* page.wait_for_load_state('networkidle'); time.sleep(2)
wait_for_network_idle ==
    /\ pc = "after_click"
    /\ ~Truthy(wait_after_login)
    /\ Step("wait_for_load_state", "networkidle", AfterWait, "except")

screenshot_after ==
    /\ pc = "screenshot_after"
    /\ Step("screenshot", "after_login.png", "extract", "except")

\* tokens = self._extract_all_tokens(page, context); return tokens
extract_tokens ==
    /\ pc = "extract"
    /\ \/ /\ calls' = Append(calls, Call("cookies", "", FALSE))
          /\ pc' = "except" /\ pending' = "raise"
          /\ UNCHANGED <<failed, tokens>>
       \/ \E raising \in SUBSET Surfaces :
          /\ calls' = Append(calls, Call("cookies", "", TRUE))
          /\ tokens' = _extract_all_tokens(site, raising)
          /\ failed' = raised_evaluations(raising)
          /\ pc' = "finally" /\ pending' = "return"
    /\ UNCHANGED <<inputs, outcome, result, configVars>>

\* except Exception as e: ... if not self.headless: page.screenshot(...); raise
except_handler ==
    /\ pc = "except"
    /\ IF headless
       THEN calls' = calls
       ELSE \E ok \in BOOLEAN :
                calls' = Append(calls, Call("screenshot", "error_screenshot.png", ok))
    /\ pc' = "finally"
    /\ UNCHANGED <<inputs, pending, failed, outcome, tokens, result, configVars>>

\* finally: browser.close()
finally_close ==
    /\ pc = "finally"
    /\ calls' = Append(calls, Call("close", "", TRUE))
    /\ pc' = "exit_with"
    /\ UNCHANGED <<inputs, pending, failed, outcome, tokens, result, configVars>>

\* The with statement is left: the return value or the exception reaches the caller.
exit_with ==
    /\ pc = "exit_with"
    /\ calls' = Append(calls, Call("sync_playwright_exit", "", TRUE))
    /\ pc' = "done"
    /\ outcome' = IF pending = "return" THEN "returned" ELSE "raised"
    /\ UNCHANGED <<inputs, pending, failed, tokens, result, configVars>>

Next ==
    \/ __init__ \/ login_and_get_tokens
    \/ launch \/ new_context \/ new_page
    \/ goto \/ wait_for_load_state \/ screenshot_before
    \/ wait_for_selector \/ fill_username \/ fill_password \/ click
    \/ wait_for_url \/ wait_for_selector_after_login \/ wait_for_network_idle
    \/ screenshot_after \/ extract_tokens
    \/ except_handler \/ finally_close \/ exit_with

Spec == Init /\ [][Next]_vars

-----------------------------------------------------------------------------
(* Claims about the run *)

\* The positions of the calls on the browser that answered, by operation.
Answered(op) == {i \in 1..Len(calls) : calls[i].op = op /\ calls[i].ok}

\* context.cookies() answered: _extract_all_tokens goes on to return a snapshot.
Extracted == Answered("cookies") # {}

\* C3: every snapshot _extract_all_tokens returns holds all five fields, whatever
\* evaluations raised, and a surface whose evaluation raised is an empty mapping.
C3_AllFieldsPresent ==
    Extracted =>
        /\ DOMAIN tokens = Fields
        /\ \A f \in failed : tokens[f] = <<>>

\* C4: when the evaluation of exactly one surface raises, a snapshot is returned
\* in which that surface is empty and every other field holds what it holds when
\* no evaluation raises.
C4_OnlyFailedSurfaceDegraded ==
    (Extracted /\ Cardinality(failed) = 1) =>
        LET unfailing == _extract_all_tokens(site, {})
        IN  /\ pending = "return"
            /\ \A f \in Fields :
                /\ f \in DOMAIN tokens
                /\ tokens[f] = IF f \in failed THEN <<>> ELSE unfailing[f]

\* C5: a run that launched a browser does not end before browser.close() is called.
C5_BrowserClosedOnEveryExit ==
    (pc = "done" /\ Answered("launch") # {}) =>
        \E i \in Answered("launch") : \E j \in Answered("close") : i < j

\* C6: with the username or the password missing, __init__ ends the run with a
\* ValueError and no call is ever made on the browser, launch included.
C6_NoLaunchWithoutCredentials ==
    (~Truthy(username) \/ ~Truthy(password)) =>
        /\ calls = <<>>
        /\ pc # "new" => (pc = "done" /\ outcome = "ValueError")

\* The run was refused with only one of the two credentials missing.
C6_Witness ==
    /\ Truthy(username) /\ ~Truthy(password)
    /\ outcome = "ValueError"

\* C7 as stated: extraction starts only after a network-idle load state was
\* signalled after the submit click, whatever wait_after_login is.
C7_NetworkIdleBeforeExtraction ==
    \A e \in 1..Len(calls) :
        calls[e].op = "cookies" =>
            \E c \in Answered("click") : \E w \in Answered("wait_for_load_state") :
                c < w /\ w < e

\* The wait the code makes after the click: for a URL pattern (a string that
\* starts with http or /) wait_for_url, for any other non-empty string
\* wait_for_selector, for None or the empty string the network-idle load state.
PostLoginWait ==
    IF wait_after_login \in {NoneStr, <<>>}
    THEN Call("wait_for_load_state", "networkidle", TRUE)
    ELSE IF wait_after_login[1] = "/" \/ SubSeq(wait_after_login, 1, 4) = <<"h","t","t","p">>
    THEN Call("wait_for_url", "wait_after_login", TRUE)
    ELSE Call("wait_for_selector", "wait_after_login", TRUE)

\* C7 as amended: extraction starts only after the submit click and after the
\* post-login wait has answered; that wait is a network-idle load state only when
\* wait_after_login is None or empty, and otherwise the wait for the URL pattern
\* or for the selector.
C7_PostLoginWaitBeforeExtraction ==
    \A e \in 1..Len(calls) :
        calls[e].op = "cookies" =>
            \E c \in Answered("click") : \E w \in (c + 1)..(e - 1) :
                calls[w] = PostLoginWait

\* Extraction has started in a run that waited for a URL pattern after the click.
C7_Witness ==
    /\ Extracted
    /\ wait_after_login = w_path
    /\ \E w \in Answered("wait_for_url") : \E c \in Answered("click") : c < w

-----------------------------------------------------------------------------
(* update_config_file (SpecConfig) *)

\* A path is its directory part and its file name: os.path.dirname gives the
\* first, which is empty for a bare file name.
PlainPath == [dir |-> "", base |-> "config.json"]
DirPath   == [dir |-> "conf", base |-> "config.json"]
Paths     == {PlainPath, DirPath}

dirname(path) == path.dir

\* JSON values, in the file and in memory: a tag and the token's text.
Str(v) == <<"str", v>>
Int(v) == <<"int", v>>

\* What a path holds: nothing, or a text that is a JSON object (its members as
\* written, a name possibly more than once), another JSON value, or no JSON.
NoFile         == [exists |-> FALSE, kind |-> "none", members |-> <<>>]
Object(ms)     == [exists |-> TRUE, kind |-> "object", members |-> ms]
OtherJson      == [exists |-> TRUE, kind |-> "other", members |-> <<>>]
Malformed      == [exists |-> TRUE, kind |-> "malformed", members |-> <<>>]

Member(k, v) == [name |-> k, value |-> v]

InitialTexts ==
    {Malformed, OtherJson,
     Object(<<>>),
     Object(<<Member("other", Int("1"))>>),
     Object(<<Member("token", Str("v0")), Member("other", Int("1"))>>),
     Object(<<Member("other", Int("1")), Member("token", Str("v1"))>>),
     Object(<<Member("other", Int("1")), Member("api", Str("v2")), Member("other", Int("2"))>>)}

\* The members of a JSON object read into a dict, in order.
RECURSIVE json_object_pairs(_, _)
json_object_pairs(ms, d) ==
    IF ms = <<>> THEN d
    ELSE json_object_pairs(Tail(ms), DictSet(d, Head(ms).name, Head(ms).value))

\* A plausible slip: a text that does not parse is taken for an empty document.
json_load_lenient(text) ==
    CASE text.kind = "object" -> [kind |-> "dict", items |-> json_object_pairs(text.members, <<>>)]
      [] text.kind = "other"  -> [kind |-> "other", items |-> <<>>]
      [] OTHER                -> [kind |-> "dict", items |-> <<>>]

\* json.load: an object becomes a dict, the members taken in order (a repeated
\* name keeps its first place and its last value); any other JSON value is no
\* dict; a text that is no JSON raises.
json_load(text) ==
    CASE text.kind = "object" -> [kind |-> "dict", items |-> json_object_pairs(text.members, <<>>)]
      [] text.kind = "other"  -> [kind |-> "other", items |-> <<>>]
      [] OTHER                -> [kind |-> "JSONDecodeError", items |-> <<>>]

\* json.dump of a dict: one member per item, in the dict's order.
json_dump(d) == Object(d)

\* A plausible slip: the document is replaced by one that holds the token alone.
set_token_alone(config, token_key, token_value) ==
    <<Member(token_key, Str(token_value))>>

\* config[token_key] = token_value
set_token(config, token_key, token_value) == DictSet(config, token_key, Str(token_value))

\* A plausible slip: the file is opened for appending.
write_appending(old, text) == IF old.exists THEN Malformed ELSE text

\* with open(config_path, 'w') as f: json.dump(config, f, indent=2)
write(old, text) == text

ConfigKeys   == {"token", "api"}
ConfigValues == {"v1", "v2"}

InitConfig ==
    /\ \E d \in SUBSET {"conf"} :
       \E plain \in {NoFile, Object(<<Member("other", Int("1"))>>)} :
       \E inDir \in (IF "conf" \in d THEN InitialTexts \cup {NoFile} ELSE {NoFile}) :
            /\ dirs = d
            /\ denied \in {"nothing", "makedirs", "read", "write"}
            /\ files = [p \in Paths |-> IF p = PlainPath THEN plain ELSE inDir]
    /\ last = None
    /\ prev = None
    /\ RunIdle
    /\ tokens = <<>>
    /\ result = NotCalled

\* The call as the caller sees it: its arguments, the text the path held before,
\* and "ok" or the exception that was re-raised.
Called(path, key, value, how) ==
    [path |-> path, key |-> key, value |-> value, before |-> files[path], outcome |-> how]

\* `denied` is what the operating system refuses: nothing, the creation of a
\* directory, the opening for reading or the opening for writing.
update_config_file(token_value, config_path, token_key) ==
    LET old    == files[config_path]
        parsed == IF old.exists THEN json_load(old) ELSE [kind |-> "dict", items |-> <<>>]
        raise(e, d) ==
            /\ last' = Called(config_path, token_key, token_value, e)
            /\ dirs' = d
            /\ files' = files
        made   == dirs \cup {dirname(config_path)}
    IN  /\ prev' = IF last = None THEN None
                   ELSE [path |-> last.path, key |-> last.key, value |-> last.value]
        /\ IF dirname(config_path) = "" THEN raise("FileNotFoundError", dirs)
           ELSE IF dirname(config_path) \notin dirs /\ denied = "makedirs"
                THEN raise("PermissionError", dirs)
           ELSE IF old.exists /\ denied = "read" THEN raise("PermissionError", made)
           ELSE IF parsed.kind = "JSONDecodeError" THEN raise("JSONDecodeError", made)
           ELSE IF parsed.kind # "dict" THEN raise("TypeError", made)
           ELSE IF denied = "write" THEN raise("PermissionError", made)
           ELSE /\ last' = Called(config_path, token_key, token_value, "ok")
                /\ dirs' = made
                /\ files' = [files EXCEPT ![config_path] =
                                write(old, json_dump(set_token(parsed.items, token_key, token_value)))]
        /\ UNCHANGED <<runVars, tokens, result, denied>>

UpdateConfigFile ==
    \E v \in ConfigValues, p \in Paths, k \in ConfigKeys :
        update_config_file(v, p, k)

NextConfig == UpdateConfigFile

SpecConfig == InitConfig /\ [][NextConfig]_vars

-----------------------------------------------------------------------------
(* Claims about update_config_file *)

\* The document a text stands for: the mapping from each member name to the
\* value of the last member of that name; no file is the empty document.
Document(text) ==
    LET ms == text.members
    IN  [k \in {ms[i].name : i \in 1..Len(ms)} |->
            ms[CHOOSE i \in 1..Len(ms) :
                /\ ms[i].name = k
                /\ \A j \in (i + 1)..Len(ms) : ms[j].name # k].value]

\* C8: after a successful update the stored document maps the key to the value
\* and every other key of the prior document to its prior value, and has no
\* other key.
C8_OnlyTheKeyChanges ==
    (last # None /\ last.outcome = "ok") =>
        LET prior == Document(last.before)
            now   == Document(files[last.path])
        IN  /\ files[last.path].kind = "object"
            /\ DOMAIN now = DOMAIN prior \cup {last.key}
            /\ now[last.key] = Str(last.value)
            /\ \A k \in DOMAIN prior \ {last.key} : now[k] = prior[k]

\* A successful update overwrote a prior value of the key in a document that
\* holds another key too.
C8_Witness ==
    /\ last # None /\ last.outcome = "ok"
    /\ last.key \in DOMAIN Document(last.before)
    /\ Document(last.before)[last.key] # Str(last.value)
    /\ DOMAIN Document(last.before) # {last.key}

SameCallTwice ==
    /\ last # None /\ prev # None
    /\ prev = [path |-> last.path, key |-> last.key, value |-> last.value]

\* C9: a second update with the same path, key and value leaves the stored text
\* as the first one left it.
C9_Idempotent ==
    SameCallTwice => files[last.path] = last.before

\* The same successful update was made twice in a row on a document with other keys.
C9_Witness ==
    /\ SameCallTwice
    /\ last.outcome = "ok"
    /\ Len(last.before.members) >= 2

\* C10: an update of a path whose text does not parse ends in an exception raised
\* to the caller and leaves the text as it was.
C10_MalformedLeftUnchanged ==
    (last # None /\ last.before.kind = "malformed") =>
        /\ last.outcome # "ok"
        /\ files[last.path] = last.before

\* An update failed on parsing the existing text.
C10_Witness ==
    /\ last # None
    /\ last.before.kind = "malformed"
    /\ last.outcome = "JSONDecodeError"

=============================================================================
